---- MODULE Spec2Model ----
(***************************************************************************)
(* Model of app_status_rust (src/src/main.rs): the polling loop of main,   *)
(* which probes the configured systemd services, frees the LED of every    *)
(* tracked service that no longer answers, and creates / updates the       *)
(* tracked entry of every service that does, calling the Particle cloud    *)
(* function on each status change.                                         *)
(***************************************************************************)
EXTENDS Integers, Sequences, FiniteSets, TLC

\* Number of LEDs in the pool.  main collects 1..12, i.e. 11 LEDs; the model
\* keeps the construction and scales the count down.
NumLeds == 2

\* Largest number of fragments a probe output is put together from.
MaxFrags == 4

\* Service names that may be listed in APPS, in the order in which a
\* configuration first mentions them.
NameOrder == <<"a", "b", "c">>

Names == {NameOrder[k] : k \in 1..Len(NameOrder)}

-----------------------------------------------------------------------------
(* Option<T>: None is the empty sequence, Some(x) a one-element sequence.  *)

None == <<>>

Some(x) == <<x>>

\* enum Status
Online == "Online"

Offline == "Offline"

Errored == "Errored"

Unknown == "Unknown"

Status == {Online, Offline, Errored, Unknown}

\* App::new
AppNew(name, last_status, led_num) ==
    [name |-> name, last_status |-> last_status, led_num |-> led_num]

-----------------------------------------------------------------------------
(* Vec<i8> as used for available_led_nums.                                 *)

\* (1..12).collect()
InitialLeds == [k \in 1..NumLeds |-> k]

\* Faulty pop: returns the last element and leaves it in the vector.
VecPopKeepsElement(v) ==
    IF Len(v) = 0
    THEN [vec |-> v, val |-> None]
    ELSE [vec |-> v, val |-> Some(v[Len(v)])]

\* Vec::pop: removes the last element and returns it, None when empty.
VecPop(v) ==
    IF Len(v) = 0
    THEN [vec |-> v, val |-> None]
    ELSE [vec |-> SubSeq(v, 1, Len(v) - 1), val |-> Some(v[Len(v)])]

\* Vec::push
VecPush(v, x) == Append(v, x)

Range(s) == {s[k] : k \in 1..Len(s)}

-----------------------------------------------------------------------------
(* The probe: systemctl_capture and systemctl_capture_to_status.  Text is  *)
(* a sequence of one-character strings.                                    *)

ActiveActive == <<"A","c","t","i","v","e",":"," ","a","c","t","i","v","e">>

ActiveInactive ==
    <<"A","c","t","i","v","e",":"," ","i","n","a","c","t","i","v","e">>

\* str::contains
Contains(text, pat) ==
    \E k \in 1..(Len(text) - Len(pat) + 1) :
        SubSeq(text, k, k + Len(pat) - 1) = pat

\* A classifier that looks for "Active: inactive" first.
systemctl_capture_to_status_inactive_first(capture) ==
    IF Contains(capture, ActiveInactive) THEN Offline
    ELSE IF Contains(capture, ActiveActive) THEN Online
    ELSE Errored

\* A classifier that answers Unknown where neither pattern occurs.
systemctl_capture_to_status_unknown(capture) ==
    IF Contains(capture, ActiveActive) THEN Online
    ELSE IF Contains(capture, ActiveInactive) THEN Offline
    ELSE Unknown

systemctl_capture_to_status(capture) ==
    IF Contains(capture, ActiveActive) THEN Online
    ELSE IF Contains(capture, ActiveInactive) THEN Offline
    ELSE Errored

Ok(s) == [ok |-> TRUE, val |-> s]

Err == [ok |-> FALSE, val |-> <<>>]

\* A capture with the exit-code check of the commented-out lines in force.
systemctl_capture_checks_exit(run) ==
    IF ~run.spawn THEN Err
    ELSE IF ~run.wait THEN Err
    ELSE IF run.exit # 0 THEN Err
    ELSE IF run.read /\ Len(run.stdout) > 0 /\ run.utf8
         THEN Ok(run.stdout)
         ELSE Err

\* One run of /usr/bin/systemctl as the program sees it: whether spawn and
\* wait succeed, the exit code, whether reading stdout succeeds, the bytes
\* read and whether they are valid UTF-8.
systemctl_capture(run) ==
    IF ~run.spawn THEN Err
    ELSE IF ~run.wait THEN Err
    ELSE IF run.read
         THEN IF Len(run.stdout) > 0
              THEN IF run.utf8 THEN Ok(run.stdout) ELSE Err
              ELSE Err
         ELSE Err

Run(spawn, wait, exit, read, stdout, utf8) ==
    [spawn |-> spawn, wait |-> wait, exit |-> exit, read |-> read,
     stdout |-> stdout, utf8 |-> utf8]

TextRunning == <<" ">> \o ActiveActive \o <<" ","(","r",")">>

TextDead == <<" ">> \o ActiveInactive \o <<" ","(","d",")">>

TextFailed == <<"A","c","t","i","v","e",":"," ","f","a","i","l","e","d">>

\* The runs the environment may produce for one service.
Runs ==
    { Run(FALSE, FALSE, 0, FALSE, <<>>, TRUE),
      Run(TRUE, TRUE, 0, TRUE, TextRunning, TRUE),
      Run(TRUE, TRUE, 3, TRUE, TextDead, TRUE),
      Run(TRUE, TRUE, 3, TRUE, TextFailed, TRUE),
      Run(TRUE, TRUE, 4, TRUE, <<>>, TRUE),
      Run(TRUE, TRUE, 0, TRUE, <<"?">>, FALSE) }

\* Fragments of systemctl output; a probe output is a concatenation of
\* fragments.
Fragments ==
    { <<"A","c","t","i","v","e",":"," ">>,
      <<"a","c","t","i","v","e">>,
      <<"i","n","a","c","t","i","v","e">>,
      <<"i","n">>,
      <<"f","a","i","l","e","d">>,
      <<"\n">> }

\* The texts made of exactly n fragments.
RECURSIVE TextsOf(_)
TextsOf(n) ==
    IF n = 0 THEN {<<>>}
    ELSE {t \o f : t \in TextsOf(n - 1), f \in Fragments}

\* The bytes a run may leave on stdout.
Texts == UNION {TextsOf(n) : n \in 0..MaxFrags}

\* Exit codes of systemctl: 0, 1 (failure), 3 (unit not active).
ExitCodes == {0, 1, 3}

\* Every run of /usr/bin/systemctl over these outputs.
AllRuns ==
    [spawn : BOOLEAN, wait : BOOLEAN, exit : ExitCodes, read : BOOLEAN,
     stdout : Texts, utf8 : BOOLEAN]

\* get_statuses, the filter_map closure without the name: the status of a
\* capture, None for a failed one.
ClosureResult(capture) ==
    IF capture.ok THEN Some(systemctl_capture_to_status(capture.val)) ELSE None

-----------------------------------------------------------------------------
(* update_app and get_status_fn.                                           *)

\* Faulty mapping: Errored is sent as setOnline.
get_status_fn_errored_online(status) ==
    CASE status = Online -> "setOnline"
      [] status = Offline -> "setOffline"
      [] status = Errored -> "setOnline"
      [] status = Unknown -> "setUndefined"

get_status_fn(status) ==
    CASE status = Online -> "setOnline"
      [] status = Offline -> "setOffline"
      [] status = Errored -> "setOffline"
      [] status = Unknown -> "setUndefined"

\* Faulty transition test: an entry without LED counts as unchanged.
StatusChangedWithLed(app, status) ==
    app.led_num # None /\ app.last_status # status

\* Faulty transition test: every observation counts as a change.
StatusChangedAlways(app, status) == TRUE

\* The transition test of the update pass.
StatusChanged(app, status) == app.last_status # status

\* Faulty test: the call is made whether or not DEVICE_NAME is set.
CallIsMadeWithoutDevice(app, device_set) == app.led_num # None

\* if let (Some(led), Ok(device)) = (app.led_num, env::var("DEVICE_NAME"))
CallIsMade(app, device_set) == app.led_num # None /\ device_set

\* Faulty update_app: a failed outbound call leaves the entry as it was.
update_app_gives_up_on_error(app, new_status, device_set, sent) ==
    LET updated == [app EXCEPT !.last_status = new_status]
        made    == updated.led_num # None /\ device_set
    IN  [app   |-> IF made /\ ~sent THEN app ELSE updated,
         calls |-> IF made
                   THEN << [name |-> updated.name,
                            led  |-> updated.led_num[1],
                            op   |-> get_status_fn(updated.last_status),
                            ok   |-> sent] >>
                   ELSE << >>]

\* Faulty update_app: last_status is recorded only when a call was made
\* and succeeded.
update_app_rollback(app, new_status, device_set, sent) ==
    LET updated == [app EXCEPT !.last_status = new_status]
        made    == updated.led_num # None /\ device_set
    IN  [app   |-> IF made /\ sent THEN updated ELSE app,
         calls |-> IF made
                   THEN << [name |-> updated.name,
                            led  |-> updated.led_num[1],
                            op   |-> get_status_fn(updated.last_status),
                            ok   |-> sent] >>
                   ELSE << >>]

\* update_app: the entry afterwards and the outbound calls made; sent says
\* whether the outbound call (when one is made) succeeds.
update_app(app, new_status, device_set, sent) ==
    LET updated == [app EXCEPT !.last_status = new_status]
    IN  [app   |-> updated,
         calls |-> IF CallIsMade(updated, device_set)
                   THEN << [name |-> updated.name,
                            led  |-> updated.led_num[1],
                            op   |-> get_status_fn(updated.last_status),
                            ok   |-> sent] >>
                   ELSE << >>]

-----------------------------------------------------------------------------
(* HashMap<String, App> as a function on the tracked names.                *)

\* Faulty remove_entry: the entry stays in the map.
MapRemoveKeepsEntry(map, key) == map

MapRemove(map, key) == [n \in (DOMAIN map) \ {key} |-> map[n]]

MapInsert(map, key, value) ==
    [n \in (DOMAIN map) \cup {key} |-> IF n = key THEN value ELSE map[n]]

\* entry(key).or_insert(default): the map afterwards.
OrInsert(map, key, default) ==
    IF key \in DOMAIN map THEN map ELSE MapInsert(map, key, default)

\* The names of a probe result.
MapNames(sm) == {sm[k][1] : k \in 1..Len(sm)}

\* Faulty presence test: any probe result at all counts.
PresentAnyName(sm, app_name) == Len(sm) > 0

\* status_map.iter().any(|(name, _)| name == &app_name)
Present(sm, app_name) == \E k \in 1..Len(sm) : sm[k][1] = app_name

-----------------------------------------------------------------------------
VARIABLES
    apps,               \* the fields of APPS after split(",")
    device_set,         \* whether DEVICE_NAME is set
    app_statuses,       \* main: the tracked entries
    available_led_nums, \* main: the free LEDs
    status_map,         \* main: this tick's probe result
    app_names,          \* main: keys still to visit in the reclaim pass
    pc,                 \* position in the loop body
    i,                  \* index of the running loop (probe, update)
    prev_map,           \* history: the previous tick's probe result
    same_probe,         \* history: this tick's probe result equals the previous
    start_statuses,     \* history: app_statuses at the start of such a tick
    ticked,             \* history: a tick has started before
    released,           \* history: led_num of the entries removed in this tick
    created,            \* history: led_num of the entries created in this tick
    attempted,          \* history: the last update iteration called update_app
    out,                \* history: outbound calls of the last update iteration
    tick_attempts,      \* history: update_app was called in this tick
    tick_calls,         \* history: an outbound call was made in this tick
    unsent,             \* history: names whose last update_app sent nothing
    probe_ok,           \* history: per field probed this tick, Ok or Err
    first_tick,         \* history: the tick under way or just over is the first
    keep_gone,          \* whether the history gone is kept in this run
    gone,               \* history: last_status of the entries removed, by name
    probe_run,          \* one probe: the run of systemctl
    probe_done,         \* one probe: the closure has been called
    captured,           \* one probe: what systemctl_capture returns for it
    classified          \* one probe: what the closure of get_statuses yields

vars == << apps, device_set, app_statuses, available_led_nums, status_map,
           app_names, pc, i, prev_map, same_probe, start_statuses, ticked,
           released, created, attempted, out, tick_attempts, tick_calls,
           unsent, probe_ok, first_tick, keep_gone, gone,
           probe_run, probe_done, captured, classified >>

\* The variables of a single probe, used when the probe is studied alone.
probe_vars == << probe_run, probe_done, captured, classified >>

\* The variables of the loop of main.
loop_vars == << apps, device_set, app_statuses, available_led_nums,
               status_map, app_names, pc, i, prev_map, same_probe,
               start_statuses, ticked, released, created, attempted, out,
               tick_attempts, tick_calls, unsent, probe_ok,
               first_tick, keep_gone, gone >>

config == << apps, device_set >>

tick_history == << released, created, attempted, out, tick_attempts,
                   tick_calls >>

\* Non-empty sequences of names with at most n elements.
NameSeqs(n) == UNION {[1..k -> Names] : k \in 1..n}

\* Service names are interchangeable, so a configuration is taken up to
\* renaming: the names first occur in the order of NameOrder.  Repeated
\* fields ("a,a", "a,b,a") are configurations like any other.
FirstOccurrenceOrder(s) ==
    \A k \in 1..Len(s) : \A m \in 1..Len(NameOrder) :
        s[k] = NameOrder[m] =>
            \A m2 \in 1..(m - 1) : \E j \in 1..(k - 1) : s[j] = NameOrder[m2]

\* env::var("APPS").unwrap_or(String::new()).split(","): an unset or empty
\* APPS yields the single empty field; otherwise up to as many fields as
\* there are names.
SplitApps ==
    {<<"">>} \cup {s \in NameSeqs(Len(NameOrder)) : FirstOccurrenceOrder(s)}

EmptyMap == [n \in {} |-> AppNew(n, Unknown, None)]

\* main before the loop, in the environment APPS = a, DEVICE_NAME set iff d.
Start(a, d) ==
    /\ apps = a
    /\ device_set = d
    /\ app_statuses = EmptyMap
    /\ available_led_nums = InitialLeds
    /\ status_map = <<>>
    /\ app_names = {}
    /\ pc = "sleep"
    /\ i = 1
    /\ prev_map = None
    /\ same_probe = FALSE
    /\ start_statuses = EmptyMap
    /\ ticked = FALSE
    /\ released = {}
    /\ created = {}
    /\ attempted = FALSE
    /\ out = <<>>
    /\ tick_attempts = FALSE
    /\ tick_calls = FALSE
    /\ unsent = {}
    /\ probe_ok = <<>>
    /\ first_tick = FALSE
    /\ gone = EmptyMap

\* No probe is studied alone.
NoProbe ==
    /\ probe_run = Run(FALSE, FALSE, 0, FALSE, <<>>, FALSE)
    /\ probe_done = FALSE
    /\ captured = Err
    /\ classified = None

Init ==
    /\ \E a \in SplitApps, d \in BOOLEAN : Start(a, d)
    /\ keep_gone = FALSE
    /\ NoProbe

\* std::thread::sleep at the top of the loop body: a new tick starts.
Sleep ==
    /\ pc = "sleep"
    /\ pc' = "probe"
    /\ i' = 1
    /\ status_map' = <<>>
    /\ prev_map' = IF ticked THEN Some(status_map) ELSE None
    /\ ticked' = TRUE
    /\ same_probe' = FALSE
    /\ start_statuses' = EmptyMap
    /\ released' = {}
    /\ created' = {}
    /\ attempted' = FALSE
    /\ out' = <<>>
    /\ tick_attempts' = FALSE
    /\ tick_calls' = FALSE
    /\ UNCHANGED << config, app_statuses, available_led_nums, app_names, unsent >>
    /\ UNCHANGED probe_vars
    /\ probe_ok' = <<>>
    /\ first_tick' = ~ticked
    /\ UNCHANGED << keep_gone, gone >>

\* get_statuses: one pass of the filter_map closure, for the field apps[i].
Probe ==
    /\ pc = "probe"
    /\ i <= Len(apps)
    /\ \E run \in Runs :
         LET capture == systemctl_capture(run)
         IN  /\ status_map' =
                  IF capture.ok
                  THEN Append(status_map,
                              << apps[i],
                                 systemctl_capture_to_status(capture.val) >>)
                  ELSE status_map
             /\ probe_ok' = Append(probe_ok, capture.ok)
    /\ i' = i + 1
    /\ UNCHANGED << config, app_statuses, available_led_nums, app_names, pc,
                    prev_map, same_probe, start_statuses, ticked,
                    tick_history, unsent >>
    /\ UNCHANGED probe_vars
    /\ UNCHANGED first_tick
    /\ UNCHANGED << keep_gone, gone >>

\* get_statuses returns; app_names is collected from the keys.
CollectKeys ==
    /\ pc = "probe"
    /\ i > Len(apps)
    /\ app_names' = DOMAIN app_statuses
    /\ pc' = "reclaim"
    /\ same_probe' = (prev_map = Some(status_map))
    /\ start_statuses' = IF same_probe' THEN app_statuses ELSE EmptyMap
    /\ prev_map' = None
    /\ UNCHANGED << config, app_statuses, available_led_nums, status_map, i,
                    ticked, tick_history, unsent >>
    /\ UNCHANGED probe_vars
    /\ UNCHANGED probe_ok
    /\ UNCHANGED first_tick
    /\ UNCHANGED << keep_gone, gone >>

\* Reclaim pass, one iteration; the keys come in the map's arbitrary order.
Reclaim ==
    /\ pc = "reclaim"
    /\ \E app_name \in app_names :
         /\ app_names' = app_names \ {app_name}
         /\ IF ~Present(status_map, app_name)
            THEN /\ app_statuses' = MapRemove(app_statuses, app_name)
                 /\ available_led_nums' =
                      IF app_statuses[app_name].led_num # None
                      THEN VecPush(available_led_nums,
                                   app_statuses[app_name].led_num[1])
                      ELSE available_led_nums
                 /\ released' =
                      released \cup {app_statuses[app_name].led_num}
                 /\ unsent' = unsent \ {app_name}
                 /\ gone' = IF keep_gone
                            THEN MapInsert(gone, app_name,
                                           app_statuses[app_name].last_status)
                            ELSE gone
            ELSE UNCHANGED << app_statuses, available_led_nums, released,
                              unsent, gone >>
    /\ UNCHANGED << config, status_map, pc, i, prev_map, same_probe,
                    start_statuses, ticked, created, attempted, out,
                    tick_attempts, tick_calls >>
    /\ UNCHANGED probe_vars
    /\ UNCHANGED probe_ok
    /\ UNCHANGED first_tick
    /\ UNCHANGED keep_gone

\* The reclaim loop ends.
ReclaimDone ==
    /\ pc = "reclaim"
    /\ app_names = {}
    /\ pc' = "update"
    /\ i' = 1
    /\ UNCHANGED << config, app_statuses, available_led_nums, status_map,
                    app_names, prev_map, same_probe, start_statuses, ticked,
                    tick_history, unsent >>
    /\ UNCHANGED probe_vars
    /\ UNCHANGED probe_ok
    /\ UNCHANGED first_tick
    /\ UNCHANGED << keep_gone, gone >>

\* Update pass, one iteration, for the item status_map[i].  The argument of
\* or_insert, and with it available_led_nums.pop(), is evaluated before
\* or_insert looks at the entry.
Update ==
    /\ pc = "update"
    /\ i <= Len(status_map)
    /\ LET app_name == status_map[i][1]
           status   == status_map[i][2]
           popped   == VecPop(available_led_nums)
           inserted == OrInsert(app_statuses, app_name,
                                AppNew(app_name, Unknown, popped.val))
           app      == inserted[app_name]
       IN  /\ available_led_nums' = popped.vec
           /\ created' = IF app_name \in DOMAIN app_statuses
                         THEN created
                         ELSE created \cup {app.led_num}
           /\ attempted' = StatusChanged(app, status)
           /\ tick_attempts' = (tick_attempts \/ attempted')
           /\ IF StatusChanged(app, status)
              THEN \E sent \in BOOLEAN :
                     LET done == update_app(app, status, device_set, sent)
                     IN  /\ app_statuses' =
                              [inserted EXCEPT ![app_name] = done.app]
                         /\ out' = done.calls
                         /\ unsent' =
                              IF \E k \in 1..Len(done.calls) : done.calls[k].ok
                              THEN unsent \ {app_name}
                              ELSE unsent \cup {app_name}
              ELSE /\ app_statuses' = inserted
                   /\ out' = <<>>
                   /\ UNCHANGED unsent
           /\ tick_calls' = (tick_calls \/ out' # <<>>)
    /\ i' = i + 1
    /\ UNCHANGED << config, status_map, app_names, pc, prev_map, same_probe,
                    start_statuses, ticked, released >>
    /\ UNCHANGED probe_vars
    /\ UNCHANGED probe_ok
    /\ UNCHANGED first_tick
    /\ UNCHANGED << keep_gone, gone >>

\* The update loop ends; the loop body is over.
UpdateDone ==
    /\ pc = "update"
    /\ i > Len(status_map)
    /\ pc' = "sleep"
    /\ UNCHANGED << config, app_statuses, available_led_nums, status_map,
                    app_names, i, prev_map, same_probe, start_statuses,
                    ticked, tick_history, unsent >>
    /\ UNCHANGED probe_vars
    /\ UNCHANGED probe_ok
    /\ UNCHANGED first_tick
    /\ UNCHANGED << keep_gone, gone >>

Next ==
    \/ Sleep
    \/ Probe
    \/ CollectKeys
    \/ Reclaim
    \/ ReclaimDone
    \/ Update
    \/ UpdateDone

Spec == Init /\ [][Next]_vars

-----------------------------------------------------------------------------
(* The loop with APPS = "a,b", where histories across ticks are affordable *)
(* and liveness can be checked.                                            *)

TwoAppsInit(keep) ==
    /\ \E d \in BOOLEAN : Start(<<"a", "b">>, d)
    /\ keep_gone = keep
    /\ NoProbe

\* With the history of removed entries.
TwoAppsSpec == TwoAppsInit(TRUE) /\ [][Next]_vars

\* The loop never stops: sleep, the probes and the outbound calls return.
TwoAppsFairSpec == TwoAppsInit(FALSE) /\ [][Next]_vars /\ WF_vars(Next)

-----------------------------------------------------------------------------
(* A single probe studied alone: systemctl_capture and the classifier      *)
(* applied to every run of AllRuns, the loop standing still.               *)

ProbeInit ==
    /\ Start(<<"a">>, TRUE)
    /\ keep_gone = FALSE
    /\ probe_run \in AllRuns
    /\ probe_done = FALSE
    /\ captured = Err
    /\ classified = None

\* One call of the filter_map closure of get_statuses.
ProbeOne ==
    /\ ~probe_done
    /\ probe_done' = TRUE
    /\ captured' = systemctl_capture(probe_run)
    /\ classified' = ClosureResult(systemctl_capture(probe_run))
    /\ UNCHANGED << probe_run, loop_vars >>

ProbeSpec == ProbeInit /\ [][ProbeOne]_vars

-----------------------------------------------------------------------------
(* Vocabulary of the properties.                                           *)

\* The tracked services that hold LED l.
HeldBy(l) == {n \in DOMAIN app_statuses : app_statuses[n].led_num = Some(l)}

\* The tracked services that hold some LED.
Holders == {n \in DOMAIN app_statuses : app_statuses[n].led_num # None}

\* An iteration of the update pass is about to run, for status_map[i].
AtUpdate == pc = "update" /\ i <= Len(status_map)

\* The status recorded for a name before it is processed: that of its
\* entry, Unknown for the entry about to be created.
Recorded(n) ==
    IF n \in DOMAIN app_statuses THEN app_statuses[n].last_status ELSE Unknown

\* The operation the specification assigns to a status.
OperationFor(status) ==
    CASE status = Online -> "setOnline"
      [] status = Offline -> "setOffline"
      [] status = Errored -> "setOffline"
      [] status = Unknown -> "setUndefined"

-----------------------------------------------------------------------------
\* C1: at every point of every tick at most NumLeds tracked services hold
\* an LED, and no LED is held by two tracked services.
C1_SlotsBoundedAndExclusive ==
    /\ Cardinality(Holders) <= NumLeds
    /\ \A l \in 1..NumLeds : Cardinality(HeldBy(l)) <= 1

\* Inside an update pass, every LED of the pool is held.
C1_Witness ==
    /\ pc = "update"
    /\ i > 1
    /\ Cardinality(Holders) = NumLeds
    /\ available_led_nums = <<>>

\* C2: at the end of every tick each LED of 1..NumLeds is either free (in
\* available_led_nums) or held by exactly one tracked service; none is lost.
C2_SlotConservation ==
    pc = "sleep" =>
        \A l \in 1..NumLeds :
            \/ l \in Range(available_led_nums) /\ HeldBy(l) = {}
            \/ l \notin Range(available_led_nums) /\ Cardinality(HeldBy(l)) = 1

\* C3: an iteration of the update pass for a name that already has an entry
\* leaves the free pool and that entry's LED unchanged.
C3_TrackedNameLeavesPool ==
    [][ (AtUpdate /\ status_map[i][1] \in DOMAIN app_statuses) =>
          /\ available_led_nums' = available_led_nums
          /\ app_statuses'[status_map[i][1]].led_num
               = app_statuses[status_map[i][1]].led_num ]_vars

\* C4: an iteration of the update pass calls update_app if and only if the
\* probed status differs from the status recorded just before; for a newly
\* created entry (recorded Unknown) it always does.
C4_AttemptIffStatusDiffers ==
    [][ AtUpdate =>
          /\ attempted' <=> (Recorded(status_map[i][1]) # status_map[i][2])
          /\ status_map[i][1] \notin DOMAIN app_statuses => attempted'
          /\ attempted' => tick_attempts' ]_vars

\* A tick in which one service changed status and a later one did not.
C4_Witness ==
    /\ pc = "update"
    /\ i > 2
    /\ ~attempted
    /\ tick_attempts

\* C5: in a tick where an entry holding an LED is removed and some entry is
\* created, at least one created entry gets an LED.
C5_SameTickReuse ==
    (pc = "sleep" /\ (\E r \in released : r # None) /\ created # {}) =>
        \E c \in created : c # None

\* C6: an entry is created without LED only when all NumLeds LEDs are held
\* by tracked services at that moment.
C6_NoneOnlyWhenExhausted ==
    [][ ( /\ AtUpdate
          /\ status_map[i][1] \notin DOMAIN app_statuses
          /\ app_statuses'[status_map[i][1]].led_num = None ) =>
          \A l \in 1..NumLeds : HeldBy(l) # {} ]_vars

\* C7: an iteration of the update pass whose probed status differs from the
\* recorded one makes exactly one outbound call, with the entry's LED and
\* the operation of the new status, when the entry has an LED and
\* DEVICE_NAME is set, and none otherwise; no other step makes a call.
C7_OneCallPerTransition ==
    [][ /\ AtUpdate =>
            LET name   == status_map[i][1]
                status == status_map[i][2]
                led    == app_statuses'[name].led_num
            IN  IF Recorded(name) # status /\ led # None /\ device_set
                THEN /\ Len(out') = 1
                     /\ out'[1].name = name
                     /\ out'[1].led = led[1]
                     /\ out'[1].op = OperationFor(status)
                ELSE out' = <<>>
        /\ ~AtUpdate => (out' = out \/ out' = <<>>) /\ (tick_calls' => tick_calls)
      ]_vars

\* An Errored service with an LED was notified with setOffline.
C7_Witness ==
    /\ pc = "update"
    /\ Len(out) = 1
    /\ out[1].op = "setOffline"
    /\ status_map[i - 1] = << out[1].name, Errored >>
    /\ app_statuses[out[1].name].led_num = Some(out[1].led)

\* C8: when update_app runs, the entry's last_status is the new status
\* afterwards, whether the call succeeded, failed or was skipped; and a
\* service whose notification failed or was skipped gets no call and no
\* update_app while its probed status stays the recorded one.
C8_NoRollbackNoRetry ==
    [][ AtUpdate =>
          LET name   == status_map[i][1]
              status == status_map[i][2]
          IN  /\ Recorded(name) # status =>
                    app_statuses'[name].last_status = status
              /\ (name \in unsent /\ Recorded(name) = status) =>
                    /\ out' = <<>>
                    /\ ~attempted'
                    /\ app_statuses'[name] = app_statuses[name] ]_vars

\* A service with an LED whose call failed is seen again, in a later tick,
\* with the recorded status; DEVICE_NAME is set.
C8_Witness ==
    /\ pc = "update"
    /\ i > 1
    /\ device_set
    /\ ~tick_attempts
    /\ status_map[i - 1][1] \in unsent
    /\ app_statuses[status_map[i - 1][1]].led_num # None
    /\ app_statuses[status_map[i - 1][1]].last_status = status_map[i - 1][2]

\* C9: a tick whose probe result equals the previous tick's makes no
\* update_app call and no outbound call, and ends with the tracked map it
\* started with.
C9_Idempotence ==
    (pc = "sleep" /\ same_probe) =>
        /\ ~tick_attempts
        /\ ~tick_calls
        /\ app_statuses = start_statuses

\* C10: the reclaim pass removes every tracked name that is not in the probe
\* result, pushes its LED (if any) to the pool and makes no outbound call;
\* calls of the update pass are for probed names; the tick ends with the
\* tracked names being exactly the probed names.
C10_AbsentRemoved ==
    [][ /\ pc = "reclaim" =>
            \A n \in app_names \ app_names' :
                ~(\E k \in 1..Len(status_map) : status_map[k][1] = n) =>
                    /\ n \notin DOMAIN app_statuses'
                    /\ app_statuses[n].led_num # None =>
                         available_led_nums' =
                           Append(available_led_nums, app_statuses[n].led_num[1])
                    /\ out' = out
                    /\ tick_calls' = tick_calls
        /\ (pc = "reclaim" /\ pc' = "update") =>
             DOMAIN app_statuses' \subseteq MapNames(status_map')
        /\ pc = "update" =>
             \A k \in 1..Len(out') : out'[k].name \in MapNames(status_map)
        /\ pc' = "sleep" => DOMAIN app_statuses' = MapNames(status_map')
      ]_vars

\* A tick ends in which an entry with an LED was removed and another entry
\* stayed.
C10_Witness ==
    /\ pc = "sleep"
    /\ \E r \in released : r # None
    /\ DOMAIN app_statuses # {}
    /\ created = {}

-----------------------------------------------------------------------------
(* The probe alone (ProbeSpec).                                            *)

\* The run of the probe failed to produce text for a reason the code looks
\* at: spawning, waiting, reading, an empty output, invalid UTF-8.
ProbeFailed ==
    \/ ~probe_run.spawn
    \/ ~probe_run.wait
    \/ ~probe_run.read
    \/ Len(probe_run.stdout) = 0
    \/ ~probe_run.utf8

\* C12 (as amended): a probe fails exactly when the command cannot be
\* spawned, waiting for it fails, reading its output fails, the output is
\* empty or the output is not valid UTF-8, and a failed probe yields no
\* probe result; in every other case, whatever the exit code, the probe
\* returns the bytes of stdout as raw text.
C12_ProbeFailsExactlyWhen ==
    probe_done =>
    /\ captured = IF ProbeFailed THEN Err ELSE Ok(probe_run.stdout)
    /\ (classified = None) <=> ProbeFailed

\* A run that exits with code 3 and is classified all the same.
C12_Witness ==
    /\ probe_done
    /\ probe_run.exit = 3
    /\ captured.ok
    /\ classified = Some(Offline)

\* C12 as stated: the probe fails whenever the command cannot be started,
\* exits non-zero, prints nothing or prints invalid text.
C12_FailsOnNonZeroExit ==
    (/\ probe_done
     /\ \/ ~probe_run.spawn
        \/ probe_run.exit # 0
        \/ Len(probe_run.stdout) = 0
        \/ ~probe_run.utf8) => ~captured.ok

\* The patterns as the classifier's description spells them.
PatternActive ==
    <<"A","c","t","i","v","e",":"," ">> \o <<"a","c","t","i","v","e">>

PatternInactive ==
    <<"A","c","t","i","v","e",":"," ">> \o <<"i","n","a","c","t","i","v","e">>

\* pat occurs in text at some offset.
Occurs(pat, text) ==
    \E k \in 0..(Len(text) - Len(pat)) :
        \A j \in 1..Len(pat) : text[k + j] = pat[j]

\* C16: the classifier answers for every raw text: Online if the text
\* contains "Active: active", else Offline if it contains
\* "Active: inactive", else Errored; it never answers Unknown.
C16_ClassifierTotal ==
    captured.ok =>
        /\ Len(classified) = 1
        /\ classified[1] \in {Online, Offline, Errored}
        /\ Occurs(PatternActive, captured.val) => classified[1] = Online
        /\ (Occurs(PatternInactive, captured.val)
             /\ ~Occurs(PatternActive, captured.val))
            => classified[1] = Offline
        /\ (~Occurs(PatternInactive, captured.val)
             /\ ~Occurs(PatternActive, captured.val))
            => classified[1] = Errored

\* A text with both patterns, the inactive one first, is Online.
C16_Witness ==
    /\ captured.ok
    /\ Occurs(PatternInactive \o PatternActive, captured.val)
    /\ classified = Some(Online)


-----------------------------------------------------------------------------
(* Failure isolation.                                                      *)

\* The fields of APPS whose probe succeeded this tick, in order.
RECURSIVE Succeeded(_)
Succeeded(k) ==
    IF k = 0 THEN <<>>
    ELSE IF probe_ok[k] THEN Append(Succeeded(k - 1), apps[k])
         ELSE Succeeded(k - 1)

\* The item k of the probe result is the last one of its name among the
\* first n items.
LastOfName(k, n) ==
    \A j \in (k + 1)..n : status_map[j][1] # status_map[k][1]

\* The first n items of the probe result have gone through the update pass:
\* each name is tracked and records the status of its last item.
Processed(n) ==
    \A k \in 1..n :
        /\ status_map[k][1] \in DOMAIN app_statuses
        /\ LastOfName(k, n)
           => Recorded(status_map[k][1]) = status_map[k][2]

\* C11: a failed probe or a failed outbound call of one service aborts
\* neither the tick nor the loop: the probe pass visits every field and its
\* result holds exactly the services whose own probe succeeded, the update
\* pass creates and updates the entry of every one of them whatever happened
\* to the others, and the loop can always take its next step.
C11_FailureIsolation ==
    /\ Len(probe_ok) = IF pc = "probe" THEN i - 1
                       ELSE IF ticked THEN Len(apps) ELSE 0
    /\ [k \in 1..Len(status_map) |-> status_map[k][1]]
         = Succeeded(Len(probe_ok))
    /\ pc = "update" => Processed(i - 1)
    /\ pc = "sleep" => Processed(Len(status_map))
    /\ ENABLED Next

\* A tick ends in which one probe failed, the outbound call of the first
\* service failed and the call of the last one went through.
C11_Witness ==
    /\ pc = "sleep"
    /\ \E k \in 1..Len(probe_ok) : ~probe_ok[k]
    /\ Len(status_map) = 2
    /\ status_map[1][1] # status_map[2][1]
    /\ status_map[1][1] \in unsent
    /\ status_map[1][1] \in Holders
    /\ device_set
    /\ Len(out) = 1
    /\ out[1].ok


-----------------------------------------------------------------------------
(* The first tick.                                                         *)

\* No name occurs twice in the probe result.
DistinctNames ==
    \A j, k \in 1..Len(status_map) :
        j # k => status_map[j][1] # status_map[k][1]

Min(a, b) == IF a < b THEN a ELSE b

\* An iteration of the update pass of the first tick, for a probe result of
\* distinct names: the entry is created, with an LED of its own as long as
\* the pool has one, and update_app is invoked; the entry with an LED gets
\* one outbound call with the operation of its status, under the condition
\* device_matters puts on DEVICE_NAME, the entry without LED gets none.
FirstTickStep(device_matters) ==
    (first_tick /\ AtUpdate /\ DistinctNames) =>
        LET n   == status_map[i][1]
            led == app_statuses'[n].led_num
        IN  /\ n \notin DOMAIN app_statuses
            /\ (led # None) <=> (i <= NumLeds)
            /\ led # None =>
                 {m \in DOMAIN app_statuses' :
                     app_statuses'[m].led_num = led} = {n}
            /\ attempted'
            /\ IF led # None /\ (device_matters => device_set)
               THEN /\ Len(out') = 1
                    /\ out'[1].name = n
                    /\ out'[1].led = led[1]
                    /\ out'[1].op = OperationFor(status_map[i][2])
               ELSE device_matters => out' = <<>>

\* The first tick ends, for a probe result of k distinct names: min(k, N)
\* entries hold an LED, the other k - min(k, N) hold none.
FirstTickEnd ==
    (first_tick /\ pc = "update" /\ pc' = "sleep" /\ DistinctNames) =>
        LET k == Len(status_map)
        IN  /\ DOMAIN app_statuses' = MapNames(status_map)
            /\ Cardinality(DOMAIN app_statuses') = k
            /\ Cardinality(Holders') = Min(k, NumLeds)
            /\ Cardinality(DOMAIN app_statuses' \ Holders')
                 = k - Min(k, NumLeds)

\* In any tick, the update of an entry without LED makes no outbound call.
NoLedNoCall ==
    (AtUpdate /\ app_statuses'[status_map[i][1]].led_num = None)
        => out' = <<>>

\* C13 (as amended): in the first tick, with a pool of N LEDs and k distinct
\* services answering, min(k, N) entries are created with pairwise distinct
\* LEDs and the other k - min(k, N) with none; update_app is invoked once
\* for each; every entry with an LED gets exactly one outbound call, with
\* the operation of its status, when DEVICE_NAME is set and none when it is
\* not; an entry without LED gets no outbound call, in this tick and in any
\* later one.
C13_FirstTick ==
    [][FirstTickStep(TRUE) /\ FirstTickEnd /\ NoLedNoCall]_vars

\* The first tick ends with three services answering and two LEDs: two hold
\* an LED and were called, one holds none.
C13_Witness ==
    /\ first_tick
    /\ pc = "sleep"
    /\ device_set
    /\ Cardinality(DOMAIN app_statuses) = NumLeds + 1
    /\ Cardinality(Holders) = NumLeds
    /\ tick_calls

\* C13 as stated: every entry with an LED gets exactly one outbound call.
C13_FirstTickAlwaysCalls ==
    [][FirstTickStep(FALSE) /\ FirstTickEnd /\ NoLedNoCall]_vars


-----------------------------------------------------------------------------
(* The free pool.                                                          *)

\* The pool holds only LEDs of 1..NumLeds, none twice, and none that a
\* tracked service holds.
PoolSound ==
    /\ Range(available_led_nums) \subseteq 1..NumLeds
    /\ Cardinality(Range(available_led_nums)) = Len(available_led_nums)
    /\ Len(available_led_nums) <= NumLeds
    /\ \A l \in Range(available_led_nums) : HeldBy(l) = {}

\* A step that lengthens the pool pushes the LED of an entry it removes,
\* and that LED was not in the pool.
ReleaseOfRemoved ==
    Len(available_led_nums') > Len(available_led_nums) =>
        \E n \in DOMAIN app_statuses :
            /\ n \notin DOMAIN app_statuses'
            /\ app_statuses[n].led_num # None
            /\ app_statuses[n].led_num[1] \notin Range(available_led_nums)
            /\ available_led_nums' =
                 Append(available_led_nums, app_statuses[n].led_num[1])

\* C14: the free pool never holds an LED outside 1..N, the same LED twice,
\* more than N LEDs or an LED held by a tracked service, and every release
\* pushes the LED of the entry removed in that same step.
C14_PoolSound ==
    [][PoolSound /\ PoolSound' /\ ReleaseOfRemoved]_vars

\* An LED has just been released while another service holds the other
\* one.
C14_Witness ==
    /\ pc = "reclaim"
    /\ Len(available_led_nums) > 0
    /\ Some(available_led_nums[Len(available_led_nums)]) \in released
    /\ Holders # {}


-----------------------------------------------------------------------------
(* The Unknown status.                                                     *)

\* C19: no tracked service records the status Unknown when a tick ends, nor
\* between the iterations of a tick, and no outbound call carries the
\* operation setUndefined.
C19_NeverUnknown ==
    /\ \A n \in DOMAIN app_statuses : app_statuses[n].last_status # Unknown
    /\ \A k \in 1..Len(out) : out[k].op # "setUndefined"

\* A tick ends whose last service answered with neither pattern: it records
\* Errored and was called with setOffline.
C19_Witness ==
    /\ pc = "sleep"
    /\ Len(out) = 1
    /\ out[1].op = "setOffline"
    /\ out[1].name \in DOMAIN app_statuses
    /\ app_statuses[out[1].name].last_status = Errored


-----------------------------------------------------------------------------
(* An empty APPS.                                                          *)

\* APPS is unset or the empty string: split(",") yields the one field "".
AppsEmpty == apps = <<"">>

\* A field of APPS is probed in this step.
ProbeStep == pc = "probe" /\ i' = i + 1

\* C17: with an empty APPS no service is probed, the tracked map stays
\* empty, no LED leaves the pool and no outbound call is made.
C17_EmptyListIdle ==
    [][AppsEmpty =>
         /\ ~ProbeStep
         /\ app_statuses' = EmptyMap
         /\ available_led_nums' = InitialLeds
         /\ out' = <<>>]_vars


-----------------------------------------------------------------------------
(* Disappearance and reappearance (TwoAppsSpec).                           *)

\* What a pop of the pool yields.
TopOfPool ==
    IF Len(available_led_nums) = 0 THEN None
    ELSE Some(available_led_nums[Len(available_led_nums)])

\* The reclaim pass ends with every service whose probe failed removed.
FailedProbeRemoved ==
    (pc = "reclaim" /\ pc' = "update") =>
        DOMAIN app_statuses \subseteq MapNames(status_map)

\* A step that removes an entry removes one whose probe failed this tick
\* and hands its LED, if it holds one, back to the pool.
RemovalReclaims ==
    \A n \in DOMAIN app_statuses \ DOMAIN app_statuses' :
        /\ n \notin MapNames(status_map)
        /\ gone'[n] = app_statuses[n].last_status
        /\ available_led_nums' =
             IF app_statuses[n].led_num # None
             THEN Append(available_led_nums, app_statuses[n].led_num[1])
             ELSE available_led_nums

\* The update of a service that was removed and answers again with the
\* status it had: the entry is created with what the pool yields, the
\* actuator is invoked and, given an LED and DEVICE_NAME, the call is made.
ReappearanceActuates ==
    LET n      == status_map[i][1]
        status == status_map[i][2]
    IN  (/\ AtUpdate
         /\ n \in DOMAIN gone
         /\ n \notin DOMAIN app_statuses
         /\ gone[n] = status) =>
            /\ n \in DOMAIN app_statuses'
            /\ app_statuses'[n] =
                 [name |-> n, last_status |-> status, led_num |-> TopOfPool]
            /\ attempted'
            /\ (TopOfPool # None /\ device_set) =>
                 /\ Len(out') = 1
                 /\ out'[1].name = n
                 /\ out'[1].led = TopOfPool[1]
                 /\ out'[1].op = OperationFor(status)

\* C18: a tracked service whose probe fails in a tick is removed in that
\* tick and its LED reclaimed; when it answers again with the status it
\* had, it is created anew from Unknown with whatever the pool yields, so
\* the actuator is invoked again although the status never changed.
C18_ReappearanceActuatesAgain ==
    [][FailedProbeRemoved /\ RemovalReclaims /\ ReappearanceActuates]_vars

\* A service removed earlier has just been created again with the status
\* it had, and the outbound call was made again.
C18_Witness ==
    /\ pc = "update"
    /\ Len(status_map) = 1
    /\ i = 2
    /\ status_map[1][1] \in DOMAIN gone
    /\ status_map[1][1] \in DOMAIN app_statuses
    /\ gone[status_map[1][1]] = status_map[1][2]
    /\ created = {app_statuses[status_map[1][1]].led_num}
    /\ attempted
    /\ Len(out) = 1


-----------------------------------------------------------------------------
(* A service waiting for an LED (TwoAppsFairSpec).                         *)

\* n is tracked without LED, answered the probe of this tick, and the
\* reclaim pass of this tick has handed an LED back to the pool.
WaitsWhileLedFreed(n) ==
    /\ pc = "reclaim"
    /\ n \in DOMAIN app_statuses
    /\ app_statuses[n].led_num = None
    /\ n \in MapNames(status_map)
    /\ \E r \in released : r # None

\* n is no longer tracked, or holds an LED.
GoneOrServed(n) ==
    n \notin DOMAIN app_statuses \/ app_statuses[n].led_num # None

\* C15: a service tracked without LED, for which an LED is released while
\* it is tracked, is eventually assigned an LED, unless it stops answering
\* (and so stops being tracked) first.
C15_LedEventuallyAssigned ==
    \A n \in Names : [](WaitsWhileLedFreed(n) => <>GoneOrServed(n))

====
